---- MODULE Spec2Model ----
(***************************************************************************)
(* CLARA: document resolution and extraction orchestration.                *)
(*                                                                         *)
(* The specifications share the definitions of this module.                *)
(*   Spec        one analysis job of a session: the routes analyze_pubmed, *)
(*               pdf_upload, analyze_pdf and start_analysis, and the item  *)
(*               loops of AnalysisService.  An extraction call is one step *)
(*               whose outcome is any outcome the call can end with.       *)
(*   SessionSpec Spec with the requests sent again: jobs started again and *)
(*               further jobs of the same session.                         *)
(*   RetrySpec   one extraction call (AnalysisService._call_ai_analyzer),  *)
(*               attempt by attempt, with the history of its failures.     *)
(*   ParserSpec  one response text, character by character, through       *)
(*               extract_json_from_text and json.loads.                    *)
(*   RequestSpec one content, character by character, made into the system *)
(*               prompt and the user content of an extraction call.        *)
(*   PollSpec    Spec with the polling routes analysis_status,             *)
(*               analysis_progress and get_results answered at any step.   *)
(*   StallSpec   Spec with requests that get no answer.                    *)
(*   LinkSpec    one link, made into the DOI that source B is asked for.   *)
(*   ClearSpec   a session whose results are cleared between its jobs.     *)
(* Spec and RetrySpec run the same per-attempt operators (openai_attempt,  *)
(* claude_attempt).                                                        *)
(***************************************************************************)
EXTENDS Integers, Sequences, FiniteSets, TLC

(* ------------------------------ bounds --------------------------------- *)
\* largest batch: papers returned by a search, files of an upload
MaxBatch == 2

\* longest response text of which every spelling is parsed
MaxLen == 4

\* longest time, in seconds, between the start of a job and a poll
MaxElapsed == 2

\* most uploads whose files are on disk at the same time
MaxUploads == 2

(* ------------------- RATE_LIMIT_CONFIG (openai_utils.py) ---------------- *)
max_retries == 5
min_wait_time == 30
max_wait_time == 60
exponential_multiplier == 1
extra_rate_limit_delay == 2

Providers == {"openai", "anthropic"}

(* --------------------------- error messages ----------------------------- *)
\* An exception message is a sequence of tokens; `marker in message` of the
\* code is token membership after lower().
Lower(tok) ==
  CASE tok = "Unauthorized" -> "unauthorized"
    [] tok = "Billing" -> "billing"
    [] tok = "Rate limit" -> "rate limit"
    [] tok = "PDF" -> "pdf"
    [] tok = "PNG" -> "png"
    [] tok = "JPG" -> "jpg"
    [] tok = "JPEG" -> "jpeg"
    [] tok = "TXT" -> "txt"
    [] OTHER -> tok

lower(msg) == [k \in 1..Len(msg) |-> Lower(msg[k])]

Contains(error_message, marker) ==
  \E k \in 1..Len(error_message) : error_message[k] = marker

RateLimitMarkers ==
  {"rate limit", "too many requests", "429", "quota exceeded",
   "requests per minute", "tokens per minute"}

BudgetMarkers ==
  {"quota exceeded", "billing", "payment", "insufficient funds",
   "budget exceeded", "usage limit", "account suspended"}

ServerMarkers ==
  {"500", "502", "503", "504", "internal server error",
   "bad gateway", "service unavailable", "gateway timeout"}

AuthMarkers == {"unauthorized", "401", "invalid api key", "authentication"}

any(markers, error_message) == \E m \in markers : Contains(error_message, m)

\* the if/elif chain of the except block of call_openai_with_retry
Classify(msg) ==
  LET error_message == lower(msg) IN
  IF any(RateLimitMarkers, error_message) THEN "rate_limit"
  ELSE IF any(BudgetMarkers, error_message) THEN "budget"
  ELSE IF any(ServerMarkers, error_message) THEN "server"
  ELSE IF any(AuthMarkers, error_message) THEN "auth"
  ELSE "other"

\* messages the extraction service is taken to fail with
RateLimitMsg == <<"Error code:", "429", "Rate limit">>
QuotaMsg == <<"quota exceeded">>
BillingMsg == <<"Billing", "hard limit reached">>
ServerMsg == <<"Error code:", "503">>
AuthMsg == <<"Error code:", "401", "Unauthorized">>
OtherMsg == <<"Connection error.">>

Messages == {RateLimitMsg, QuotaMsg, BillingMsg, ServerMsg, AuthMsg, OtherMsg}

\* the failures drawn inside a job (one per behaviour of the job)
JobMessages == {RateLimitMsg, BillingMsg, AuthMsg}

\* how the extraction service behaves in a session: with every answer and
\* failure of the model ("varied"), or with one answer and one failure
\* ("steady")
Services == {"varied", "steady"}

NoMsg == <<>>

(* ------------------------------ records --------------------------------- *)
\* A result dictionary.  An absent key reads as "" (<<>> for Error) and as
\* "NA" for PMID and Full Text Link, the defaults of the .get() calls; file
\* names are the positive numbers, 0 is an absent Filename.
\* item is the index of the source whose content was being processed and
\* keys the set of the keys the dictionary holds.
EmptyDict ==
  [Title |-> "", Error |-> NoMsg, PMID |-> "NA", FullTextLink |-> "NA",
   AnalysisSource |-> "", Filename |-> 0, item |-> 0, keys |-> {}]

\* the fields the instruction asks the model for (get_base_analysis_prompt)
Fields ==
  {"Title", "PMID", "Full Text Link", "Subject of Study", "Disease State",
   "Number of Subjects Studied", "Type of Study", "Study Design",
   "Intervention", "Intervention Dose", "Intervention Dosage Form", "Control",
   "Primary Endpoint", "Primary Endpoint Result", "Secondary Endpoints",
   "Safety Endpoints", "Results Available", "Primary Endpoint Met",
   "Statistical Significance", "Clinical Significance", "Conclusion",
   "Main Author", "Other Authors", "Journal Name", "Date of Publication",
   "Error"}

\* model responses: a JSON object with every field, a JSON object that
\* leaves fields out, a brace span that does not parse, or text without any
\* brace
FullJsonBodies ==
  {[kind |-> "json", PMID |-> p, FullTextLink |-> l, keys |-> Fields] :
      p \in {"NA", "pmid"}, l \in {"NA", "https://doi.org/10.1/x"}}

PartialJson ==
  [kind |-> "json", PMID |-> "NA", FullTextLink |-> "NA", keys |-> {"Title"}]

JsonBodies == FullJsonBodies \cup {PartialJson}

BadJson ==
  [kind |-> "bad_json", PMID |-> "NA", FullTextLink |-> "NA", keys |-> {}]
NoJson ==
  [kind |-> "no_json", PMID |-> "NA", FullTextLink |-> "NA", keys |-> {}]
NoBody ==
  [kind |-> "none", PMID |-> "NA", FullTextLink |-> "NA", keys |-> {}]

Bodies == JsonBodies \cup {BadJson, NoJson}

\* extract_json_from_text followed by json.loads, with the JSONDecodeError
\* handler of the analyze functions
parse_response(body) ==
  CASE body.kind = "json" ->
         [EmptyDict EXCEPT !.Title = "paper", !.PMID = body.PMID,
                           !.FullTextLink = body.FullTextLink,
                           !.keys = body.keys]
    [] body.kind = "bad_json" ->
         [EmptyDict EXCEPT !.Title = "Error parsing model response",
                           !.Error = <<"Could not parse response as JSON">>,
                           !.keys = {"Title", "Error", "Raw Response"}]
    [] OTHER ->
         [EmptyDict EXCEPT !.Title = "Error Processing Document",
                           !.Error = <<"Could not extract valid JSON from model response">>,
                           !.keys = {"Error", "Title"}]

\* what one attempt of the remote call does: answer with a body or raise
Resp(body) == [t |-> "resp", body |-> body, msg |-> NoMsg]
Exc(msg) == [t |-> "exc", body |-> NoBody, msg |-> msg]

AttemptOutcomes == {Resp(b) : b \in Bodies} \cup {Exc(m) : m \in Messages}
JobAttemptOutcomes == {Resp(b) : b \in Bodies} \cup {Exc(m) : m \in JobMessages}

\* the steady service: the complete object of a paper with PMID and DOI
\* link, or a refused key
SteadyBody ==
  [kind |-> "json", PMID |-> "pmid", FullTextLink |-> "https://doi.org/10.1/x",
   keys |-> Fields]

SteadyAttemptOutcomes == {Resp(SteadyBody), Exc(AuthMsg)}

(* ---------------------------- retry policy ------------------------------ *)
\* state of one extraction call: attempts made so far, how it ended
\* ("running", "returned", "raised"), the dictionary returned or the message
\* raised, the messages raised by the attempts, the extra seconds slept in
\* the except block of each failed attempt and the seconds waited before
\* each retry
NewCall ==
  [attempt |-> 0, status |-> "running", value |-> EmptyDict, raised |-> NoMsg,
   errs |-> <<>>, extras |-> <<>>, waits |-> <<>>]

NoCall == [NewCall EXCEPT !.status = "idle"]

NoParse == [stage |-> "idle"]

RECURSIVE Pow2(_)
Pow2(k) == IF k <= 0 THEN 1 ELSE 2 * Pow2(k - 1)

Min(a, b) == IF a < b THEN a ELSE b
Max(a, b) == IF a > b THEN a ELSE b

\* a backoff without the lower and the upper limit
wait_exponential_unbounded(attempt_number) ==
  exponential_multiplier * Pow2(attempt_number - 1)

\* tenacity wait_exponential(multiplier, min, max)
wait_exponential(attempt_number) ==
  Max(Max(0, min_wait_time),
      Min(exponential_multiplier * Pow2(attempt_number - 1), max_wait_time))

\* a stop condition that lets one attempt too many through
stop_after_attempt_late(attempt_number) == attempt_number > max_retries

\* tenacity stop_after_attempt(max_retries)
stop_after_attempt(attempt_number) == attempt_number >= max_retries

\* a retry condition that retries nothing
retry_never(msg) == FALSE

\* tenacity retry_if_exception_type((Exception,)): every exception the
\* function raises, whatever branch of the except block re-raised it
retry_if_exception_type(msg) == TRUE

\* an except block that sleeps the extra delay whatever the error
extra_delay_always(msg) == extra_rate_limit_delay

\* the except block: sleeps the extra delay for a rate limit, then re-raises
extra_delay(msg) ==
  IF Classify(msg) = "rate_limit" THEN extra_rate_limit_delay ELSE 0

\* one attempt of call_openai_with_retry under its @retry decorator
openai_attempt(st, o) ==
  LET n == st.attempt + 1 IN
  IF o.t = "resp"
  THEN [st EXCEPT !.attempt = n, !.status = "returned",
                  !.value = parse_response(o.body)]
  ELSE IF retry_if_exception_type(o.msg) /\ ~stop_after_attempt(n)
       THEN [st EXCEPT !.attempt = n,
                       !.errs = Append(@, o.msg),
                       !.extras = Append(@, extra_delay(o.msg)),
                       !.waits = Append(@, wait_exponential(n))]
       ELSE [st EXCEPT !.attempt = n, !.status = "raised",
                       !.raised = o.msg,
                       !.errs = Append(@, o.msg),
                       !.extras = Append(@, extra_delay(o.msg))]

\* analyze_paper_with_claude: one call, every exception becomes a dictionary
claude_attempt(st, o) ==
  LET n == st.attempt + 1 IN
  IF o.t = "resp"
  THEN [st EXCEPT !.attempt = n, !.status = "returned",
                  !.value = parse_response(o.body)]
  ELSE [st EXCEPT !.attempt = n, !.status = "returned",
                  !.value = [EmptyDict EXCEPT !.Title = "Error analyzing document",
                                              !.Error = o.msg,
                                              !.keys = {"Title", "Error"}],
                  !.errs = Append(@, o.msg)]

\* AnalysisService._call_ai_analyzer: dispatch on the provider
call_ai_analyzer(provider, st, o) ==
  IF provider = "openai" THEN openai_attempt(st, o) ELSE claude_attempt(st, o)

\* the calls an extraction call can grow into within `rounds` more attempts
\* that end as one of `outcomes`
RECURSIVE Reach(_, _, _, _)
Reach(provider, S, rounds, outcomes) ==
  IF rounds = 0 THEN S
  ELSE Reach(provider,
             S \cup {call_ai_analyzer(provider, st, o) :
                       st \in {s \in S : s.status = "running"},
                       o \in outcomes},
             rounds - 1, outcomes)

\* every way _call_ai_analyzer can end: a returned dictionary or a raised
\* message
CallResults(provider, outcomes) ==
  {[status |-> st.status, value |-> st.value, raised |-> st.raised] :
     st \in {s \in Reach(provider, {NewCall}, max_retries + 1, outcomes) :
               s.status # "running"}}

OpenAIResults == CallResults("openai", JobAttemptOutcomes)
ClaudeResults == CallResults("anthropic", JobAttemptOutcomes)
SteadyOpenAIResults == CallResults("openai", SteadyAttemptOutcomes)
SteadyClaudeResults == CallResults("anthropic", SteadyAttemptOutcomes)

analyzer_results(provider, behaviour) ==
  IF behaviour = "steady"
  THEN IF provider = "openai" THEN SteadyOpenAIResults ELSE SteadyClaudeResults
  ELSE IF provider = "openai" THEN OpenAIResults ELSE ClaudeResults

(* ------------------------------- request -------------------------------- *)
\* the parts of the system prompt (prompts.py)
get_base_analysis_prompt == "base analysis prompt"
get_pdf_prompt_addition == "pdf prompt addition"
get_openai_specific_instructions == "openai specific instructions"
get_claude_specific_instructions == "claude specific instructions"

\* get_analysis_prompt of openai_utils.py
openai_get_analysis_prompt(is_pdf) ==
  <<get_base_analysis_prompt, get_openai_specific_instructions>>
    \o (IF is_pdf THEN <<get_pdf_prompt_addition>> ELSE <<>>)

\* get_analysis_prompt of claude_utils.py
claude_get_analysis_prompt(is_pdf) ==
  <<get_base_analysis_prompt, get_claude_specific_instructions>>
    \o (IF is_pdf THEN <<get_pdf_prompt_addition>> ELSE <<>>)

\* the system prompt of the analyze function _call_ai_analyzer dispatches to
get_analysis_prompt(provider, is_pdf) ==
  IF provider = "openai" THEN openai_get_analysis_prompt(is_pdf)
  ELSE claude_get_analysis_prompt(is_pdf)

NoPrompt == <<>>

\* len(user_content) > 100000, user_content[:100000]
max_content_length == 100000

\* "\n\n[Content truncated due to length]"
TruncationMarker ==
  <<"\n", "\n", "[", "C", "o", "n", "t", "e", "n", "t", " ", "t", "r", "u",
    "n", "c", "a", "t", "e", "d", " ", "d", "u", "e", " ", "t", "o", " ",
    "l", "e", "n", "g", "t", "h", "]">>

\* a cut that starts at the cap instead of after it
user_content_from_cap(paper_content) ==
  IF Len(paper_content) >= max_content_length
  THEN SubSeq(paper_content, 1, max_content_length) \o TruncationMarker
  ELSE paper_content

\* user_content of call_openai_with_retry; str() of a string is the string
openai_user_content(paper_content) ==
  IF Len(paper_content) > max_content_length
  THEN SubSeq(paper_content, 1, max_content_length) \o TruncationMarker
  ELSE paper_content

\* user_content of analyze_paper_with_claude
claude_user_content(paper_content) ==
  IF Len(paper_content) > max_content_length
  THEN SubSeq(paper_content, 1, max_content_length) \o TruncationMarker
  ELSE paper_content

\* contents of n characters, the characters told apart by their place
Text(n, c) == [k \in 1..n |-> IF k % 2 = 1 THEN c ELSE "-"]

\* the contents a request is built from: short ones and ones around the cap
Contents ==
  {Text(n, c) :
     n \in (0..MaxLen) \cup
           ((max_content_length - MaxLen)..(max_content_length + MaxLen)),
     c \in {"a", "b"}}

NoRequest == [stage |-> "idle"]

NewRequest(paper_content, is_pdf) ==
  [stage |-> "content", paper_content |-> paper_content, is_pdf |-> is_pdf,
   system_prompt |-> NoPrompt, user_content |-> <<>>]

(* --------------------------- response parser ---------------------------- *)
\* A response text is a sequence of characters.
WhiteSpace == {" ", "\n"}

\* str.isspace(): at least one character and every character whitespace
isspace(text) ==
  text # <<>> /\ \A k \in 1..Len(text) : text[k] \in WhiteSpace

Least(S) == CHOOSE x \in S : \A y \in S : x <= y
Greatest(S) == CHOOSE x \in S : \A y \in S : x >= y

\* str.strip()
strip(text) ==
  LET inked == {k \in 1..Len(text) : text[k] \notin WhiteSpace} IN
  IF inked = {} THEN <<>> ELSE SubSeq(text, Least(inked), Greatest(inked))

\* the position the greedy \s* started at p stops at
skip_space(text, p) ==
  Least({q \in p..(Len(text) + 1) :
           /\ q = Len(text) + 1 \/ text[q] \notin WhiteSpace
           /\ \A k \in p..(q - 1) : text[k] \in WhiteSpace})

\* the literal w stands at position p of text
literal_at(text, p, w) ==
  /\ p + Len(w) - 1 <= Len(text)
  /\ SubSeq(text, p, p + Len(w) - 1) = w

\* the character U+0060, which a string of this language cannot hold
BackTick == "<backtick>"

Fence == <<BackTick, BackTick, BackTick>>
JsonTag == <<"j", "s", "o", "n">>

\* a span of the text, first and last position; NoSpan when no match
NoSpan == <<0, 0>>

\* group 1 of the fenced pattern, fence (?:json)?\s*({[\s\S]*?})\s* fence,
\* matched at position s0 with the tag taken (skip = 4) or not (skip = 0):
\* the lazy body ends at the first '}' that \s* and a fence follow
fenced_group(text, s0, skip) ==
  IF ~literal_at(text, s0, Fence) THEN NoSpan
  ELSE IF skip > 0 /\ ~literal_at(text, s0 + 3, JsonTag) THEN NoSpan
  ELSE LET b == skip_space(text, s0 + 3 + skip)
           closing == {e \in (b + 1)..Len(text) :
                         /\ text[e] = "}"
                         /\ literal_at(text, skip_space(text, e + 1), Fence)}
       IN IF b <= Len(text) /\ text[b] = "{" /\ closing # {}
          THEN <<b, Least(closing)>>
          ELSE NoSpan

\* the match at s0: the optional tag is tried first, then left out
fenced_match_at(text, s0) ==
  IF fenced_group(text, s0, Len(JsonTag)) # NoSpan
  THEN fenced_group(text, s0, Len(JsonTag))
  ELSE fenced_group(text, s0, 0)

\* re.search of the fenced pattern: the leftmost match
fenced_span(text) ==
  LET starts == {s0 \in 1..Len(text) : fenced_match_at(text, s0) # NoSpan} IN
  IF starts = {} THEN NoSpan ELSE fenced_match_at(text, Least(starts))

\* re.search of ({[\s\S]*?}): the leftmost '{' that a '}' follows, up to the
\* first '}' after it
brace_span(text) ==
  LET opens == {b \in 1..Len(text) :
                  text[b] = "{" /\ \E e \in (b + 1)..Len(text) : text[e] = "}"}
  IN IF opens = {} THEN NoSpan
     ELSE LET b == Least(opens) IN
          <<b, Least({e \in (b + 1)..Len(text) : text[e] = "}"})>>

span_text(text, span) == SubSeq(text, span[1], span[2])

\* the JSON text of the last resort, keys and values shortened to a letter:
\* {"Error": "Could not extract valid JSON from model response",
\*  "Title": "Error Processing Document"}
FixedErrorJson ==
  <<"{", "\"", "E", "\"", ":", " ", "\"", "m", "\"", ",", " ",
    "\"", "T", "\"", ":", " ", "\"", "t", "\"", "}">>

\* which branch of extract_json_from_text answers for text
extract_branch(text) ==
  IF text = <<>> \/ isspace(text) THEN "empty"
  ELSE IF fenced_span(text) # NoSpan THEN "fenced"
  ELSE IF brace_span(text) # NoSpan THEN "braces"
  ELSE IF /\ strip(text)[1] = "{"
          /\ strip(text)[Len(strip(text))] = "}" THEN "whole"
  ELSE "fixed"

\* extract_json_from_text
extract_json_from_text(text) ==
  CASE extract_branch(text) = "empty" -> <<"{", "}">>
    [] extract_branch(text) = "fenced" ->
         strip(span_text(text, fenced_span(text)))
    [] extract_branch(text) = "braces" ->
         strip(span_text(text, brace_span(text)))
    [] extract_branch(text) = "whole" -> strip(text)
    [] OTHER -> FixedErrorJson

\* json.loads over objects and strings: the position after the JSON string
\* that starts at p, 0 when there is none
string_end(t, p) ==
  IF p <= Len(t) /\ t[p] = "\""
  THEN LET closes == {e \in (p + 1)..Len(t) : t[e] = "\""} IN
       IF closes = {} THEN 0 ELSE Least(closes) + 1
  ELSE 0

RECURSIVE value_end(_, _), members_end(_, _)

\* the position after the JSON value that starts at p, 0 when there is none
value_end(t, p) ==
  IF p > Len(t) THEN 0
  ELSE IF t[p] = "\"" THEN string_end(t, p)
  ELSE IF t[p] = "{"
       THEN LET q == skip_space(t, p + 1) IN
            IF q <= Len(t) /\ t[q] = "}" THEN q + 1 ELSE members_end(t, q)
       ELSE 0

\* p is where a member of an object starts: the position after the '}' that
\* closes the object, 0 when the members do not parse
members_end(t, p) ==
  LET k == string_end(t, p) IN
  IF k = 0 THEN 0
  ELSE LET c == skip_space(t, k) IN
       IF c > Len(t) \/ t[c] # ":" THEN 0
       ELSE LET v == value_end(t, skip_space(t, c + 1)) IN
            IF v = 0 THEN 0
            ELSE LET n == skip_space(t, v) IN
                 IF n > Len(t) THEN 0
                 ELSE IF t[n] = "}" THEN n + 1
                 ELSE IF t[n] = "," THEN members_end(t, skip_space(t, n + 1))
                 ELSE 0

\* json.loads(t) does not raise JSONDecodeError
json_valid(t) ==
  LET v == value_end(t, skip_space(t, 1)) IN
  v # 0 /\ skip_space(t, v) = Len(t) + 1

\* inside(t, k): position k lies in a string literal of t
inside(t, k) ==
  Cardinality({j \in 1..(k - 1) : t[j] = "\""}) % 2 = 1

\* the value json.loads returns, written without insignificant whitespace
json_loads(t) ==
  LET kept == {k \in 1..Len(t) : t[k] \notin WhiteSpace \/ inside(t, k)}
      nth(S, n) == CHOOSE x \in S : Cardinality({y \in S : y < x}) = n - 1
  IN [n \in 1..Cardinality(kept) |-> t[nth(kept, n)]]

\* response_text[:500]
excerpt_limit == 500

Ellipsis == <<".", ".", ".">>

\* a handler that puts the whole response into the record
raw_response_whole(response_text) == response_text

\* "Raw Response" of the JSONDecodeError handler
raw_response(response_text) ==
  IF Len(response_text) > excerpt_limit
  THEN SubSeq(response_text, 1, excerpt_limit) \o Ellipsis
  ELSE response_text

\* what the parsing part of an analyze function returns: the parsed value
\* (kind "value") or the dictionary of the JSONDecodeError handler
NoValue == <<>>

parsed_value(t) ==
  [kind |-> "value", value |-> json_loads(t), Title |-> "", Error |-> NoMsg,
   RawResponse |-> <<>>]

parse_error(response_text) ==
  [kind |-> "parse_error", value |-> NoValue,
   Title |-> "Error parsing model response",
   Error |-> <<"Could not parse response as JSON:", "JSONDecodeError">>,
   RawResponse |-> raw_response(response_text)]

\* the try/except around json.loads(cleaned_str)
loads_or_error(cleaned_str, response_text) ==
  IF json_valid(cleaned_str) THEN parsed_value(cleaned_str)
  ELSE parse_error(response_text)

\* response_text to returned dictionary
parse_text(response_text) ==
  loads_or_error(extract_json_from_text(response_text), response_text)

(* ---- responses the parser is run on ---- *)
Alphabet == {"{", "}", BackTick, " ", "a"}

\* every text over Alphabet of at most n characters
Texts(n) == UNION {[1..k -> Alphabet] : k \in 0..n}

\* JSON objects a model can answer with: empty, flat, nested, with a brace
\* inside a value
Payloads ==
  {<<"{", "}">>,
   <<"{", "\"", "a", "\"", ":", "\"", "a", "\"", "}">>,
   <<"{", "\"", "a", "\"", ":", "{", "}", "}">>,
   <<"{", "\"", "a", "\"", ":", " ", "{", "\"", "a", "\"", ":", "\"", "a",
     "\"", "}", ",", "\"", "b", "\"", ":", "\"", "a", "\"", "}">>,
   <<"{", "\"", "a", "\"", ":", "\"", "}", "\"", "}">>}

\* brace spans that are no JSON
Broken ==
  {<<"{", "a", "}">>,
   <<"{", "\"", "a", "\"", ":", "}">>,
   <<"{", "\"", "a", "\"", "}">>}

\* the payload inside a fenced block, with or without the tag
Fenced(p) == Fence \o p \o Fence
FencedJson(p) == Fence \o JsonTag \o <<"\n">> \o p \o <<"\n">> \o Fence

Prose == {<<>>, <<"a", " ">>}

Wrapped ==
  {pre \o w \o post :
     pre \in Prose, post \in Prose,
     w \in UNION {{p, Fenced(p), FencedJson(p)} : p \in Payloads \cup Broken}}

\* responses around the excerpt limit: a broken span and n more characters
Padded(n) == <<"{", "a", "}">> \o [k \in 1..n |-> "a"]

Long == {Padded(n) : n \in (excerpt_limit - 4)..(excerpt_limit + MaxLen)}

Responses == Texts(MaxLen) \cup Wrapped \cup Long

NewParse(text) ==
  [stage |-> "response", text |-> text, cleaned |-> <<>>,
   result |-> parsed_value(<<>>)]

(* ------------------------- full-text sources ---------------------------- *)
\* what the two Entrez requests of fetch_full_text_from_pmc can meet: a
\* request that raises (transport error) or times out, no PMC link, a
\* document that does not parse as XML, a document whose article-id differs
\* from, equals or lacks the queried PMID, a document without text
PmcOutcomes ==
  {"pmc_error", "pmc_timeout", "pmc_no_link", "pmc_unparsable",
   "pmid_mismatch", "pmid_match", "pmid_absent", "pmc_empty_text"}

\* None and the empty string: `if not full_text`
NoText == ""

\* a fetch that returns the text of a document whose article-id differs
fetch_full_text_from_pmc_unchecked(o) ==
  IF o \in {"pmid_mismatch", "pmid_match", "pmid_absent"}
  THEN "pmc text" ELSE NoText

\* fetch_full_text_from_pmc: the text, or None
fetch_full_text_from_pmc(o) ==
  CASE o = "pmc_error" -> NoText
    [] o = "pmc_timeout" -> NoText
    [] o = "pmc_no_link" -> NoText
    [] o = "pmc_unparsable" -> NoText
    [] o = "pmid_mismatch" -> NoText
    [] o = "pmc_empty_text" -> NoText
    [] OTHER -> "pmc text"

\* what the two requests of fetch_full_text_from_doi can meet: a request
\* that raises or times out (timeout=30), a status other than 200, a record
\* that is not open access, a PDF request that does not answer 200 or does
DoiOutcomes ==
  {"doi_error", "doi_timeout", "doi_not_200", "doi_not_oa",
   "doi_pdf_not_200", "doi_pdf_ok"}

\* fetch_full_text_from_doi: the placeholder text, or None
fetch_full_text_from_doi(o) ==
  IF o = "doi_pdf_ok" THEN "PDF available at: url" ELSE NoText

\* the DOI taken from the link of the abstract result, "" for None
doi_of(doi_link) ==
  IF doi_link = "https://doi.org/10.1/x" THEN "10.1/x" ELSE ""

\* a second source that is asked whenever a DOI is there
doi_wanted_always(text, doi) == doi # ""

\* "Try DOI if PMC failed": `if not full_text and doi`
doi_wanted(text, doi) == text = NoText /\ doi # ""

(* --------------------------- DOI of a link ------------------------------ *)
\* A link is a sequence of tokens: the separator "/", the host marker
\* 'doi.org', the scheme and other segments.
HostMarker == "doi.org"
Scheme == "https:"
Slash == "/"

\* str.split(sep): the segments between the separators, empty ones included
RECURSIVE split(_, _)
split(text, sep) ==
  LET seps == {k \in 1..Len(text) : text[k] = sep} IN
  IF seps = {} THEN <<text>>
  ELSE <<SubSeq(text, 1, Least(seps) - 1)>>
         \o split(SubSeq(text, Least(seps) + 1, Len(text)), sep)

\* None
NoDoi == <<>>

\* "Extract DOI from link" of _try_full_text_analysis
extract_doi(doi_link) ==
  IF doi_link # <<>> /\ Contains(doi_link, HostMarker)
  THEN LET parts == split(doi_link, Slash) IN
       IF Len(parts) >= 2
       THEN parts[Len(parts) - 1] \o <<Slash>> \o parts[Len(parts)]
       ELSE NoDoi
  ELSE NoDoi

\* the links a DOI is taken from: every sequence of at most MaxLen tokens,
\* alone, after the scheme, and after the scheme and the host
LinkAlphabet == {Slash, HostMarker, "10.1", "x"}

Links ==
  LET short == UNION {[1..k -> LinkAlphabet] : k \in 0..MaxLen} IN
  short \cup {<<Scheme, Slash, Slash>> \o l : l \in short}
        \cup {<<Scheme, Slash, Slash, HostMarker, Slash>> \o l : l \in short}

NewLookup(doi_link) == [stage |-> "link", link |-> doi_link, doi |-> NoDoi]

(* ----------------------------- local files ------------------------------ *)
\* the part of an uploaded file's name after the last "."
FileExts == {"pdf", "PNG", "txt"}

\* pdf_files of the session: path and declared name of each upload
Uploads(n) ==
  {[k \in 1..n |-> [name |-> k, ext |-> e[k]]] : e \in [1..n -> FileExts]}

\* the number of the next upload: file k of upload g is saved at path <<g, k>>
\* (the name after a timestamp)
next_upload(saved) ==
  IF saved = {} THEN 1 ELSE Greatest({path[1] : path \in saved}) + 1

\* the entries of session['pdf_files'] for the files of upload g
saved_files(files, g) ==
  [k \in 1..Len(files) |->
     [name |-> files[k].name, ext |-> files[k].ext, path |-> <<g, k>>]]

paths(files) == {files[k].path : k \in 1..Len(files)}

\* the loop `if os.path.exists(path): os.remove(path)` over files
remove_files(saved, files) == saved \ paths(files)

\* what reading a supported file can meet: pages with text, pages that give
\* no text (a PDF without text layer read without OCR, a blank image), a
\* file the reader raises on
ReadOutcomes == {"text", "no_text", "unreadable"}

\* convert_pdf_to_txt_file: text += page.extract_text() + "\n\n"
PageSeparator == "\n\n"

\* the readers that run OCR (pytesseract)
OcrReaders == {"images_to_txt", "image_to_string"}

NoReader == "none"

\* a choice of reader that runs OCR only when the flag asks for it
reader_by_flag(file_extension, use_ocr_flag) ==
  IF file_extension = "pdf"
  THEN IF use_ocr_flag THEN "images_to_txt" ELSE "convert_pdf_to_txt_file"
  ELSE IF file_extension \in {"png", "jpg", "jpeg"}
       THEN IF use_ocr_flag THEN "image_to_string" ELSE "convert_pdf_to_txt_file"
       ELSE NoReader

\* the if/elif chain of process_file: the function that reads the file
reader(file_extension, use_ocr_flag) ==
  IF file_extension = "pdf"
  THEN IF use_ocr_flag THEN "images_to_txt" ELSE "convert_pdf_to_txt_file"
  ELSE IF file_extension \in {"png", "jpg", "jpeg"}
       THEN "image_to_string"
       ELSE NoReader

\* text_content of process_file for a file that could be read: the page
\* texts each followed by the separator, or the OCR texts
text_content(r, o) ==
  IF o = "text" THEN "file text"
  ELSE IF r = "convert_pdf_to_txt_file" THEN PageSeparator ELSE ""

\* a process_file that reads whatever it is given as a PDF
process_file_any_type(file, use_ocr_flag, o) ==
  LET r == IF use_ocr_flag THEN "images_to_txt" ELSE "convert_pdf_to_txt_file" IN
  IF o = "unreadable"
  THEN [ok |-> FALSE, content |-> "", msg |-> <<"cannot read file">>,
        ran |-> <<r>>]
  ELSE [ok |-> TRUE, content |-> text_content(r, o), msg |-> NoMsg,
        ran |-> <<r>>]

\* process_file: the extracted content, or a raised message; ran holds the
\* readers that were called
process_file(file, use_ocr_flag, o) ==
  LET file_extension == Lower(file.ext)
      r == reader(file_extension, use_ocr_flag)
  IN IF r = NoReader
     THEN [ok |-> FALSE, content |-> "", msg |-> <<"Unsupported file type">>,
           ran |-> <<>>]
     ELSE IF o = "unreadable"
          THEN [ok |-> FALSE, content |-> "", msg |-> <<"cannot read file">>,
                ran |-> <<r>>]
          ELSE [ok |-> TRUE, content |-> text_content(r, o), msg |-> NoMsg,
                ran |-> <<r>>]

\* the content handed to an extraction call; NotSent before the first call
NotSent == "<no call>"
PaperContent == "paper"

(* ------------------------------- state ---------------------------------- *)
VARIABLES
  api_provider,      \* session['api_provider']
  analysis_type,     \* session['analysis_type'], "none" when absent
  analysis_status,   \* session['analysis_status'], "none" when absent
  progress,          \* session['progress']
  total_papers,      \* session['total_papers']
  current_paper,     \* session['current_paper']: index named by the label
  analysis_results,  \* session['analysis_results']
  pdf_files,         \* session['pdf_files']
  use_ocr,           \* session['use_ocr'], FALSE when absent
  start_time,        \* session['start_time'], NoTime when absent
  pc,                \* position of the running start_analysis request
  papers,            \* papers['PubmedArticle'] of the search
  i,                 \* loop index of the item loop
  results,           \* the list the item loop appends to
  result,            \* result of _analyze_single_paper (the abstract result)
  full_text,         \* full_text of _try_full_text_analysis
  source,            \* source of _try_full_text_analysis
  caught,            \* message of the exception the item's except block caught
  events,            \* requests made for the current item, in order
  sent,              \* content handed to the latest extraction call
  system_prompt,     \* system prompt of the latest extraction call
  call,              \* the extraction call of RetrySpec
  parser,            \* the response being parsed in ParserSpec
  request,           \* the request being built in RequestSpec
  polled,            \* the latest response of a polling route
  service,           \* how the extraction service behaves in the session
  lookup,            \* the link a DOI is being taken from in LinkSpec
  disk,              \* paths of the uploads saved in UPLOAD_FOLDER
  query              \* session['query'] and session['max_results']

session == <<api_provider, analysis_type, analysis_status, progress,
             total_papers, current_paper, analysis_results, pdf_files,
             use_ocr, start_time>>
locals == <<pc, papers, i, results, result, full_text, source, caught, events,
            sent, system_prompt>>
beside == <<lookup, disk, query>>
aside == <<call, parser, request, polled, service, beside>>
vars == <<session, locals, aside>>

\* session['start_time']: absent, or the time.time() of the latest
\* assignment
NoTime == "none"
JobStart == "time of the start"

NoPoll == [route |-> "none"]

NoLookup == [stage |-> "idle"]

\* the search parameters are absent from the session
NoQuery == "none"

\* the session once the settings are saved, before any job
SessionInit ==
  /\ api_provider \in Providers
  /\ analysis_type = "none"
  /\ analysis_status = "none"
  /\ progress = 0
  /\ total_papers = 0
  /\ current_paper = 0
  /\ analysis_results = <<>>
  /\ pdf_files = <<>>
  /\ use_ocr = FALSE
  /\ start_time = NoTime
  /\ pc = "idle"
  /\ papers = <<>>
  /\ i = 0
  /\ results = <<>>
  /\ result = EmptyDict
  /\ full_text = NoText
  /\ source = ""
  /\ caught = NoMsg
  /\ events = <<>>
  /\ sent = NotSent
  /\ system_prompt = NoPrompt

Init ==
  /\ SessionInit
  /\ call = NoCall
  /\ parser = NoParse
  /\ request = NoRequest
  /\ polled = NoPoll
  /\ service = "varied"
  /\ lookup = NoLookup
  /\ disk = {}
  /\ query = NoQuery

(* ------------------------------ routes ---------------------------------- *)
\* GET /analyze-pubmed, for the first job of the session
analyze_pubmed ==
  /\ pc = "idle"
  /\ analysis_type = "none"
  /\ analysis_type' = "pubmed"
  /\ analysis_status' = "pending"
  /\ UNCHANGED <<api_provider, progress, total_papers, current_paper,
                 analysis_results, pdf_files, use_ocr, start_time, locals,
                 aside>>

\* POST /pdf-upload: the saved uploads are stored in the session and the
\* browser is redirected to /analyze-pdf
pdf_upload ==
  /\ pc = "idle"
  /\ analysis_type = "none"
  /\ pdf_files = <<>>
  /\ next_upload(disk) <= MaxUploads
  /\ \E n \in 1..MaxBatch : \E files \in Uploads(n) :
       /\ pdf_files' = saved_files(files, next_upload(disk))
       /\ disk' = disk \cup paths(saved_files(files, next_upload(disk)))
  /\ use_ocr' \in BOOLEAN
  /\ pc' = "redirect"
  /\ UNCHANGED <<api_provider, analysis_type, analysis_status, progress,
                 total_papers, current_paper, analysis_results, start_time,
                 papers, i, results, result, full_text, source, caught,
                 events, sent, system_prompt, call, parser, request, polled,
                 service, lookup, query>>

\* GET /analyze-pdf, reached by the redirect of pdf_upload
analyze_pdf ==
  /\ pc = "redirect"
  /\ pdf_files # <<>>
  /\ analysis_type' = "pdf"
  /\ analysis_status' = "pending"
  /\ pc' = "idle"
  /\ UNCHANGED <<api_provider, progress, total_papers, current_paper,
                 analysis_results, pdf_files, use_ocr, start_time, papers, i,
                 results, result, full_text, source, caught, events, sent,
                 system_prompt, aside>>

\* POST /api/start-analysis up to the call of the analysis service.  The
\* locals of the handler and the history of the previous request are new.
start_analysis_request ==
  /\ pc = "idle"
  /\ analysis_status' = "running"
  /\ current_paper' = 0
  /\ progress' = 0
  /\ start_time' = JobStart
  /\ results' = <<>>
  /\ i' = 0
  /\ papers' = <<>>
  /\ caught' = NoMsg
  /\ events' = <<>>
  /\ sent' = NotSent
  /\ system_prompt' = NoPrompt
  /\ \E created \in BOOLEAN :
       IF ~created
       THEN \* create_openai_client / create_claude_client raises before
            \* the try block: the exception leaves the handler
            /\ total_papers' = 0
            /\ pc' = "idle"
       ELSE CASE analysis_type = "pubmed" ->
                   /\ total_papers' = 0
                   /\ pc' = "search"
              [] analysis_type = "pdf" ->
                   \* total_papers from the route, then _init_progress
                   /\ total_papers' = Len(pdf_files)
                   /\ pc' = IF pdf_files # <<>> THEN "pdf_loop" ELSE "store"
              [] OTHER ->
                   \* 'Invalid analysis type', 400
                   /\ total_papers' = 0
                   /\ pc' = "idle"
  /\ UNCHANGED <<api_provider, analysis_type, analysis_results, pdf_files,
                 use_ocr, result, full_text, source, aside>>

\* the POST /api/start-analysis the results page sends for the first job of
\* the session
start_analysis ==
  /\ analysis_status \in {"none", "pending"}
  /\ start_analysis_request

\* further requests are followed over a session that stores no results (the
\* earlier job found no paper, ended in error or never reached the service)
NoStoredResults == analysis_results = <<>>

\* a POST /api/start-analysis sent again, whatever the earlier one left
start_analysis_again ==
  /\ NoStoredResults
  /\ analysis_status \in {"running", "completed", "error"}
  /\ start_analysis_request

\* GET /analyze-pubmed for a further job of the session
analyze_pubmed_again ==
  /\ NoStoredResults
  /\ pc = "idle"
  /\ analysis_type # "none"
  /\ analysis_type' = "pubmed"
  /\ analysis_status' = "pending"
  /\ UNCHANGED <<api_provider, progress, total_papers, current_paper,
                 analysis_results, pdf_files, use_ocr, start_time, locals,
                 aside>>

\* GET /analyze-pdf for a further job over the uploads of the session
analyze_pdf_again ==
  /\ NoStoredResults
  /\ pc = "idle"
  /\ analysis_type # "none"
  /\ pdf_files # <<>>
  /\ analysis_type' = "pdf"
  /\ analysis_status' = "pending"
  /\ UNCHANGED <<api_provider, progress, total_papers, current_paper,
                 analysis_results, pdf_files, use_ocr, start_time, locals,
                 aside>>

\* the except block of start_analysis
start_analysis_except ==
  /\ analysis_status' = "error"
  /\ pc' = "idle"

\* an end of the try block that counts one item more than the results
store_results_counts_on ==
  /\ pc = "store"
  /\ analysis_results' = results
  /\ analysis_status' = "completed"
  /\ progress' = Len(results) + 1
  /\ pc' = "idle"
  /\ UNCHANGED <<api_provider, analysis_type, total_papers, current_paper,
                 pdf_files, use_ocr, start_time, papers, i, results, result,
                 full_text, source, caught, events, sent, system_prompt,
                 aside>>

\* the end of the try block of start_analysis
store_results ==
  /\ pc = "store"
  /\ analysis_results' = results
  /\ analysis_status' = "completed"
  /\ progress' = Len(results)
  /\ pc' = "idle"
  /\ UNCHANGED <<api_provider, analysis_type, total_papers, current_paper,
                 pdf_files, use_ocr, start_time, papers, i, results, result,
                 full_text, source, caught, events, sent, system_prompt,
                 aside>>

(* ------------------------- search and clearing -------------------------- *)
\* POST /pubmed-search: the search parameters are stored in the session
pubmed_search ==
  /\ pc = "idle"
  /\ query = NoQuery
  /\ query' = "query"
  /\ UNCHANGED <<session, locals, call, parser, request, polled, service,
                 lookup, disk>>

\* GET /analyze-pubmed when the session holds the search parameters
analyze_pubmed_searched ==
  /\ query # NoQuery
  /\ analyze_pubmed

\* POST /clear-results, between two jobs: the keys are popped, then the
\* files of session.get('pdf_files') are removed
clear_results ==
  /\ pc = "idle"
  /\ analysis_results' = <<>>
  /\ analysis_status' = "none"
  /\ analysis_type' = "none"
  /\ query' = NoQuery
  /\ pdf_files' = <<>>
  /\ use_ocr' = FALSE
  /\ disk' = remove_files(disk, pdf_files')
  /\ UNCHANGED <<api_provider, progress, total_papers, current_paper,
                 start_time, locals, call, parser, request, polled, service,
                 lookup>>

\* POST /cleanup-temp-files, between two jobs
cleanup_temp_files ==
  /\ pc = "idle"
  /\ disk' = remove_files(disk, pdf_files)
  /\ pdf_files' = <<>>
  /\ UNCHANGED <<api_provider, analysis_type, analysis_status, progress,
                 total_papers, current_paper, analysis_results, use_ocr,
                 start_time, locals, call, parser, request, polled, service,
                 lookup, query>>

(* ------------------------------ polling --------------------------------- *)
\* session.get('analysis_status', 'unknown')
status_or_unknown == IF analysis_status = "none" THEN "unknown" ELSE analysis_status

\* int((progress / total_papers) * 100) if total_papers > 0 else 0
progress_percent ==
  IF total_papers > 0 THEN (progress * 100) \div total_papers ELSE 0

\* None, the null of the response; an ETA of n seconds is <<n>>
NoEta == <<>>

\* calculate_eta; elapsed is time.time() - start_time in whole seconds.  The
\* division by an elapsed time of 0 raises and the bare except returns None.
calculate_eta(done, total, start, elapsed) ==
  IF start = NoTime \/ done = 0 \/ done >= total THEN NoEta
  ELSE IF elapsed = 0 THEN NoEta
  ELSE <<((total - done) * elapsed) \div done>>

\* a handler that writes the count it reports back into the session
analysis_status_poll_saves ==
  /\ polled' = [route |-> "analysis_status",
                status |-> status_or_unknown,
                completed |-> status_or_unknown = "completed",
                count |-> Len(analysis_results),
                progress |-> progress,
                total |-> total_papers,
                progress_percent |-> progress_percent]
  /\ progress' = Len(analysis_results)
  /\ UNCHANGED <<api_provider, analysis_type, analysis_status, total_papers,
                 current_paper, analysis_results, pdf_files, use_ocr,
                 start_time, locals, call, parser, request, service,
                 beside>>

\* GET /api/analysis-status
analysis_status_poll ==
  /\ polled' = [route |-> "analysis_status",
                status |-> status_or_unknown,
                completed |-> status_or_unknown = "completed",
                count |-> Len(analysis_results),
                progress |-> progress,
                total |-> total_papers,
                progress_percent |-> progress_percent]
  /\ UNCHANGED <<session, locals, call, parser, request, service,
                 beside>>

\* GET /api/analysis-progress, sent elapsed seconds after the start time
analysis_progress_poll ==
  /\ \E elapsed \in 0..MaxElapsed :
       polled' = [route |-> "analysis_progress",
                  progress |-> progress,
                  total |-> total_papers,
                  progress_percent |-> progress_percent,
                  current_paper |-> current_paper,
                  status |-> status_or_unknown,
                  eta |-> calculate_eta(progress, total_papers, start_time,
                                        elapsed),
                  elapsed |-> elapsed]
  /\ UNCHANGED <<session, locals, call, parser, request, service,
                 beside>>

\* GET /api/results
get_results ==
  /\ polled' = [route |-> "results", results |-> analysis_results]
  /\ UNCHANGED <<session, locals, call, parser, request, service,
                 beside>>

(* --------------------------- AnalysisService ---------------------------- *)
\* use_full_text of analyze_pubmed_papers: start_analysis leaves the default
use_full_text == TRUE

\* an entry that goes for the full text instead of the abstract
first_step_full_text(want_full_text) ==
  IF want_full_text THEN "pmc" ELSE "abstract"

\* where _analyze_single_paper starts: "First, analyze with abstract"
first_step(want_full_text) == "abstract"

\* where _analyze_single_paper goes when the abstract analysis returned
after_abstract(want_full_text) == IF want_full_text THEN "pmc" ELSE "keep"

\* an except block that drops the message of the exception
failed_record_generic(e, k) ==
  [EmptyDict EXCEPT !.Title = "Error analyzing paper",
                    !.Error = <<"Unknown error">>,
                    !.AnalysisSource = "Failed", !.item = k,
                    !.keys = {"Title", "Error", "Analysis Source"}]

\* the dictionary the except block of _analyze_single_paper returns
failed_record(e, k) ==
  [EmptyDict EXCEPT !.Title = "Error analyzing paper", !.Error = e,
                    !.AnalysisSource = "Failed", !.item = k,
                    !.keys = {"Title", "Error", "Analysis Source"}]

\* an except block that returns None, which the loop does not append
single_paper_except_none(e, k) == <<>>

\* what the except block of _analyze_single_paper hands to the loop: the
\* records that `if result: results.append(result)` appends
single_paper_except(e, k) == <<failed_record(e, k)>>

\* an error record that does not name its file
pdf_error_record_unnamed(e, file, k) ==
  [EmptyDict EXCEPT !.Title = "Error processing file", !.Error = e,
                    !.item = k, !.keys = {"Title", "Error"}]

\* the dictionary the except block of analyze_pdf_files appends
pdf_error_record(e, file, k) ==
  [EmptyDict EXCEPT !.Title = "Error processing file", !.Error = e,
                    !.Filename = file.name, !.item = k,
                    !.keys = {"Title", "Filename", "Error"}]

\* a full-text step that fails the item when no source gave text
no_full_text_failed(abstract) ==
  <<failed_record(<<"full text not available">>, abstract.item)>>

\* _try_full_text_analysis returned None: `if full_text_result` is false and
\* _analyze_single_paper returns the abstract result
no_full_text(abstract) == <<abstract>>

\* a label that names PMC whatever the source was
full_text_label_pmc(src) == "Full Text (PMC)"

\* the provenance label of a full-text result
full_text_label(src) ==
  IF src = "PMC" THEN "Full Text (PMC)" ELSE "Full Text (DOI)"

\* the end of one pass of a for loop over n items: the records are appended,
\* the locals of the pass are gone and the loop goes to the next item or
\* returns
end_of_item(recs, n, next) ==
  /\ results' = results \o recs
  /\ i' = i + 1
  /\ pc' = IF i + 1 < n THEN next ELSE "store"
  /\ result' = EmptyDict
  /\ full_text' = NoText
  /\ source' = ""

\* analyze_pubmed_papers up to the loop: search, then _init_progress
search_and_fetch_pubmed ==
  /\ pc = "search"
  /\ \/ \* the search raises: the except block of start_analysis
        /\ start_analysis_except
        /\ UNCHANGED <<progress, total_papers, start_time, papers>>
     \/ \* no paper found: return []
        /\ papers' = <<>>
        /\ pc' = "store"
        /\ UNCHANGED <<analysis_status, progress, total_papers, start_time>>
     \/ \E n \in 1..MaxBatch :
          /\ papers' = [k \in 1..n |-> k]
          /\ total_papers' = n
          /\ progress' = 0
          /\ start_time' = JobStart
          /\ analysis_status' = "running"
          /\ pc' = first_step(use_full_text)
  /\ UNCHANGED <<api_provider, analysis_type, current_paper, analysis_results,
                 pdf_files, use_ocr, i, results, result, full_text, source,
                 caught, events, sent, system_prompt, aside>>

\* the loop body up to the abstract analysis: _update_progress, then
\* _call_ai_analyzer(paper) and the tag "Abstract"
analyze_abstract ==
  /\ pc = "abstract"
  /\ progress' = i + 1
  /\ current_paper' = i + 1
  /\ sent' = PaperContent
  /\ system_prompt' = get_analysis_prompt(api_provider, FALSE)
  /\ \E r \in analyzer_results(api_provider, service) :
       IF r.status = "returned"
       THEN LET abstract == [r.value EXCEPT !.AnalysisSource = "Abstract",
                                            !.item = papers[i + 1],
                                            !.keys = @ \cup {"Analysis Source"}]
            IN /\ events' = <<"abstract_call", "abstract_returned">>
               /\ caught' = NoMsg
               /\ IF after_abstract(use_full_text) = "keep"
                  THEN end_of_item(<<abstract>>, Len(papers),
                                   first_step(use_full_text))
                  ELSE /\ pc' = after_abstract(use_full_text)
                       /\ result' = abstract
                       /\ full_text' = NoText
                       /\ source' = ""
                       /\ UNCHANGED <<results, i>>
       ELSE /\ events' = <<"abstract_call", "abstract_raised">>
            /\ caught' = r.raised
            /\ end_of_item(single_paper_except(r.raised, papers[i + 1]),
                           Len(papers), first_step(use_full_text))
  /\ UNCHANGED <<api_provider, analysis_type, analysis_status, total_papers,
                 analysis_results, pdf_files, use_ocr, start_time, papers,
                 aside>>

\* _try_full_text_analysis, "Try PMC first"
try_pmc ==
  /\ pc = "pmc"
  /\ IF result.PMID \notin {"NA", "N/A"}
     THEN \E o \in PmcOutcomes :
            /\ full_text' = fetch_full_text_from_pmc(o)
            /\ source' = IF fetch_full_text_from_pmc(o) # NoText THEN "PMC" ELSE ""
            /\ events' = events \o <<"pmc_fetch", o>>
     ELSE UNCHANGED <<full_text, source, events>>
  /\ pc' = "doi"
  /\ UNCHANGED <<session, papers, i, results, result, caught, sent,
                 system_prompt, aside>>

\* _try_full_text_analysis, "Try DOI if PMC failed", and the return of None
\* when neither source gave text
try_doi ==
  /\ pc = "doi"
  /\ \E o \in DoiOutcomes :
       LET asked == doi_wanted(full_text, doi_of(result.FullTextLink))
           text == IF asked THEN fetch_full_text_from_doi(o) ELSE full_text
       IN /\ events' = IF asked THEN events \o <<"doi_fetch", o>> ELSE events
          /\ IF text = NoText
             THEN end_of_item(no_full_text(result), Len(papers),
                              first_step(use_full_text))
             ELSE /\ pc' = "full_text"
                  /\ full_text' = text
                  /\ source' = IF asked THEN "DOI" ELSE source
                  /\ UNCHANGED <<results, i, result>>
  /\ UNCHANGED <<session, papers, caught, sent, system_prompt, aside>>

\* the record _analyze_single_paper returns after the full-text analysis:
\* r is how _call_ai_analyzer(full_text) ended, abstract the abstract result
promote(r, abstract, src) ==
  IF r.status = "returned"
  THEN [r.value EXCEPT !.PMID = abstract.PMID,
                       !.FullTextLink = abstract.FullTextLink,
                       !.AnalysisSource = full_text_label(src),
                       !.item = abstract.item,
                       !.keys = @ \cup {"PMID", "Full Text Link",
                                        "Analysis Source"}]
  ELSE abstract

\* _try_full_text_analysis, "Analyze full text"
analyze_full_text ==
  /\ pc = "full_text"
  /\ \E r \in analyzer_results(api_provider, service) :
       /\ events' = Append(events, "full_text_call")
       /\ sent' = full_text
       /\ system_prompt' = get_analysis_prompt(api_provider, FALSE)
       /\ end_of_item(<<promote(r, result, source)>>, Len(papers),
                      first_step(use_full_text))
  /\ UNCHANGED <<session, papers, caught, aside>>

\* one pass of the loop of analyze_pdf_files
analyze_pdf_file ==
  /\ pc = "pdf_loop"
  /\ progress' = i + 1
  /\ current_paper' = i + 1
  /\ LET pdf_file == pdf_files[i + 1] IN
     \E ro \in ReadOutcomes :
       LET processed == process_file(pdf_file, use_ocr, ro) IN
       /\ events' = processed.ran
       /\ IF ~processed.ok
          THEN /\ caught' = processed.msg
               /\ sent' = sent
               /\ system_prompt' = system_prompt
               /\ end_of_item(<<pdf_error_record(processed.msg, pdf_file, i + 1)>>,
                              Len(pdf_files), "pdf_loop")
          ELSE \E r \in analyzer_results(api_provider, service) :
                 /\ sent' = processed.content
                 /\ system_prompt' = get_analysis_prompt(api_provider, TRUE)
                 /\ IF r.status = "returned"
                    THEN /\ caught' = NoMsg
                         /\ end_of_item(<<[r.value EXCEPT
                                             !.Filename = pdf_file.name,
                                             !.item = i + 1,
                                             !.keys = @ \cup {"Filename"}]>>,
                                        Len(pdf_files), "pdf_loop")
                    ELSE /\ caught' = r.raised
                         /\ end_of_item(<<pdf_error_record(r.raised, pdf_file,
                                                           i + 1)>>,
                                        Len(pdf_files), "pdf_loop")
  /\ UNCHANGED <<api_provider, analysis_type, analysis_status, total_papers,
                 analysis_results, pdf_files, use_ocr, start_time, papers,
                 aside>>

(* ------------------------ calls without an answer ----------------------- *)
\* no timeout is passed to the request
NoTimeout == <<>>

\* the timeout, in seconds, each request of the job is sent with: the
\* Entrez requests are sent with none, the two requests of the DOI source
\* with timeout=30
request_timeout(req) ==
  CASE req \in {"esearch", "efetch", "elink", "efetch_pmc"} -> NoTimeout
    [] req \in {"unpaywall", "pdf_url"} -> <<30>>

\* the requests of search_and_fetch_pubmed and of fetch_full_text_from_pmc
SearchRequests == {"esearch", "efetch"}
PmcRequests == {"elink", "efetch_pmc"}

\* a request of the literature search gets no answer: without a timeout the
\* call does not return and the job stays where it is
search_no_response ==
  /\ pc = "search"
  /\ \E req \in SearchRequests : request_timeout(req) = NoTimeout
  /\ pc' = "blocked"
  /\ UNCHANGED <<session, papers, i, results, result, full_text, source,
                 caught, events, sent, system_prompt, aside>>

\* a request of fetch_full_text_from_pmc gets no answer
pmc_no_response ==
  /\ pc = "pmc"
  /\ result.PMID \notin {"NA", "N/A"}
  /\ \E req \in PmcRequests : request_timeout(req) = NoTimeout
  /\ pc' = "blocked"
  /\ events' = events \o <<"pmc_fetch", "pmc_no_response">>
  /\ UNCHANGED <<session, papers, i, results, result, full_text, source,
                 caught, sent, system_prompt, aside>>

(* --------------------------- specifications ----------------------------- *)
Next ==
  \/ analyze_pubmed
  \/ pdf_upload
  \/ analyze_pdf
  \/ start_analysis
  \/ search_and_fetch_pubmed
  \/ analyze_abstract
  \/ try_pmc
  \/ try_doi
  \/ analyze_full_text
  \/ analyze_pdf_file
  \/ store_results

Spec == Init /\ [][Next]_vars

\* the session over any sequence of requests: jobs started again and new
\* jobs after the first
SessionNext ==
  \/ Next
  \/ analyze_pubmed_again
  \/ analyze_pdf_again
  \/ start_analysis_again

SessionSpec == Init /\ [][SessionNext]_vars

\* the first job of a session with the results page polling it, the
\* extraction service being steady
PollInit ==
  /\ SessionInit
  /\ call = NoCall
  /\ parser = NoParse
  /\ request = NoRequest
  /\ polled = NoPoll
  /\ service = "steady"
  /\ lookup = NoLookup
  /\ disk = {}
  /\ query = NoQuery

PollNext ==
  \/ Next
  \/ analysis_status_poll
  \/ analysis_progress_poll
  \/ get_results

PollSpec == PollInit /\ [][PollNext]_vars

\* doi_link to doi in _try_full_text_analysis
try_full_text_extract_doi ==
  /\ lookup.stage = "link"
  /\ lookup' = [lookup EXCEPT !.stage = "derived",
                              !.doi = extract_doi(lookup.link)]
  /\ UNCHANGED <<session, locals, call, parser, request, polled, service,
                 disk, query>>

\* one link of an abstract result, made into a DOI
LinkInit ==
  /\ SessionInit
  /\ call = NoCall
  /\ parser = NoParse
  /\ request = NoRequest
  /\ polled = NoPoll
  /\ service = "varied"
  /\ lookup \in {NewLookup(l) : l \in Links}
  /\ disk = {}
  /\ query = NoQuery

LinkNext == try_full_text_extract_doi

LinkSpec == LinkInit /\ [][LinkNext]_vars

\* the start_analysis request has returned: the locals of the handler and
\* the record of what it asked for are gone
request_returned ==
  /\ pc = "idle"
  /\ results # <<>> \/ events # <<>> \/ papers # <<>> \/ i # 0
  /\ papers' = <<>>
  /\ i' = 0
  /\ results' = <<>>
  /\ result' = EmptyDict
  /\ full_text' = NoText
  /\ source' = ""
  /\ caught' = NoMsg
  /\ events' = <<>>
  /\ sent' = NotSent
  /\ system_prompt' = NoPrompt
  /\ UNCHANGED <<session, pc, aside>>

\* no handler's locals are left and no response is on its way
Quiet ==
  /\ results = <<>>
  /\ events = <<>>
  /\ papers = <<>>
  /\ i = 0
  /\ polled = NoPoll

\* the response of a poll has reached the browser
poll_answered ==
  /\ polled # NoPoll
  /\ polled' = NoPoll
  /\ UNCHANGED <<session, locals, call, parser, request, service, beside>>

\* a session whose results are cleared between jobs: searches, uploads,
\* jobs, polls of the status, clearing, the extraction service being steady.  A handler
\* runs while no response of a poll is on its way, and a request between
\* two jobs is sent after the earlier job's request has returned.
ClearNext ==
  \/ Quiet /\ pubmed_search
  \/ Quiet /\ analyze_pubmed_searched
  \/ Quiet /\ pdf_upload
  \/ polled = NoPoll /\ analyze_pdf
  \/ polled = NoPoll /\ start_analysis
  \/ polled = NoPoll /\ search_and_fetch_pubmed
  \/ polled = NoPoll /\ analyze_abstract
  \/ polled = NoPoll /\ try_pmc
  \/ polled = NoPoll /\ try_doi
  \/ polled = NoPoll /\ analyze_full_text
  \/ polled = NoPoll /\ analyze_pdf_file
  \/ polled = NoPoll /\ store_results
  \/ polled = NoPoll /\ request_returned
  \/ Quiet /\ clear_results
  \/ Quiet /\ cleanup_temp_files
  \/ polled = NoPoll /\ analysis_status_poll
  \/ poll_answered

ClearSpec == PollInit /\ [][ClearNext]_vars

\* the first job of a session with calls that may get no answer
StallNext ==
  \/ Next
  \/ search_no_response
  \/ pmc_no_response

StallSpec == Init /\ [][StallNext]_vars

\* one attempt of call_openai_with_retry for a job of provider 'openai'
call_openai_with_retry ==
  /\ api_provider = "openai"
  /\ call.status = "running"
  /\ \E o \in AttemptOutcomes : call' = call_ai_analyzer(api_provider, call, o)
  /\ UNCHANGED <<session, locals, parser, request, polled, service,
                 beside>>

\* analyze_paper_with_claude for a job of provider 'anthropic'
analyze_paper_with_claude ==
  /\ api_provider = "anthropic"
  /\ call.status = "running"
  /\ \E o \in AttemptOutcomes : call' = call_ai_analyzer(api_provider, call, o)
  /\ UNCHANGED <<session, locals, parser, request, polled, service,
                 beside>>

RetryInit ==
  /\ SessionInit
  /\ call = NewCall
  /\ parser = NoParse
  /\ request = NoRequest
  /\ polled = NoPoll
  /\ service = "varied"
  /\ lookup = NoLookup
  /\ disk = {}
  /\ query = NoQuery

RetryNext == call_openai_with_retry \/ analyze_paper_with_claude

RetrySpec == RetryInit /\ [][RetryNext]_vars

\* the parsing part of call_openai_with_retry: extract_json_from_text
openai_extract_json ==
  /\ api_provider = "openai"
  /\ parser.stage = "response"
  /\ parser' = [parser EXCEPT !.stage = "cleaned",
                              !.cleaned = extract_json_from_text(parser.text)]
  /\ UNCHANGED <<session, locals, call, request, polled, service,
                 beside>>

\* the parsing part of call_openai_with_retry: json.loads and its handler
openai_json_loads ==
  /\ api_provider = "openai"
  /\ parser.stage = "cleaned"
  /\ parser' = [parser EXCEPT !.stage = "done",
                              !.result = loads_or_error(parser.cleaned,
                                                        parser.text)]
  /\ UNCHANGED <<session, locals, call, request, polled, service,
                 beside>>

\* the parsing part of analyze_paper_with_claude: extract_json_from_text
claude_extract_json ==
  /\ api_provider = "anthropic"
  /\ parser.stage = "response"
  /\ parser' = [parser EXCEPT !.stage = "cleaned",
                              !.cleaned = extract_json_from_text(parser.text)]
  /\ UNCHANGED <<session, locals, call, request, polled, service,
                 beside>>

\* the parsing part of analyze_paper_with_claude: json.loads and its handler
claude_json_loads ==
  /\ api_provider = "anthropic"
  /\ parser.stage = "cleaned"
  /\ parser' = [parser EXCEPT !.stage = "done",
                              !.result = loads_or_error(parser.cleaned,
                                                        parser.text)]
  /\ UNCHANGED <<session, locals, call, request, polled, service,
                 beside>>

\* one response of the extraction service, parsed
ParserInit ==
  /\ SessionInit
  /\ call = NoCall
  /\ parser \in {NewParse(text) : text \in Responses}
  /\ request = NoRequest
  /\ polled = NoPoll
  /\ service = "varied"
  /\ lookup = NoLookup
  /\ disk = {}
  /\ query = NoQuery

ParserNext ==
  \/ openai_extract_json
  \/ openai_json_loads
  \/ claude_extract_json
  \/ claude_json_loads

ParserSpec == ParserInit /\ [][ParserNext]_vars

\* the request part of call_openai_with_retry
openai_build_request ==
  /\ api_provider = "openai"
  /\ request.stage = "content"
  /\ request' =
       [request EXCEPT
          !.stage = "built",
          !.system_prompt = openai_get_analysis_prompt(request.is_pdf),
          !.user_content = openai_user_content(request.paper_content)]
  /\ UNCHANGED <<session, locals, call, parser, polled, service,
                 beside>>

\* the request part of analyze_paper_with_claude
claude_build_request ==
  /\ api_provider = "anthropic"
  /\ request.stage = "content"
  /\ request' =
       [request EXCEPT
          !.stage = "built",
          !.system_prompt = claude_get_analysis_prompt(request.is_pdf),
          !.user_content = claude_user_content(request.paper_content)]
  /\ UNCHANGED <<session, locals, call, parser, polled, service,
                 beside>>

\* one content handed to an analyze function
RequestInit ==
  /\ SessionInit
  /\ call = NoCall
  /\ parser = NoParse
  /\ request \in {NewRequest(c, is_pdf) : c \in Contents, is_pdf \in BOOLEAN}
  /\ polled = NoPoll
  /\ service = "varied"
  /\ lookup = NoLookup
  /\ disk = {}
  /\ query = NoQuery

RequestNext == openai_build_request \/ claude_build_request

RequestSpec == RequestInit /\ [][RequestNext]_vars

(* ------------------------------- claims --------------------------------- *)
\* size of the input batch of the job
InputSize == IF analysis_type = "pubmed" THEN Len(papers) ELSE Len(pdf_files)

FullTextLabels == {"Full Text (PMC)", "Full Text (DOI)"}
FullTextEvents == {"pmc_fetch", "doi_fetch", "full_text_call"}

C3_PromoteOnSuccess ==
  \A k \in 1..Len(results) :
    results[k].AnalysisSource \in FullTextLabels => results[k].Error = NoMsg

\* C4: within an item every full-text fetch and every full-text extraction
\* call comes after the abstract analysis of that item has returned, and the
\* full-text part is only entered with the abstract result in hand.
C4_FullTextAfterAbstract ==
  /\ \A j \in 1..Len(events) :
       events[j] \in FullTextEvents =>
         \E h \in 1..(j - 1) : events[h] = "abstract_returned"
  /\ pc \in {"pmc", "doi", "full_text"} =>
       /\ \E h \in 1..Len(events) : events[h] = "abstract_returned"
       /\ result.AnalysisSource = "Abstract"

\* an item whose full text was fetched and analysed
C4_Witness ==
  /\ Len(events) >= 4
  /\ events[Len(events)] = "full_text_call"
  /\ \E j \in 1..Len(events) : events[j] = "pmc_fetch"

\* every attempt made so far raised, and each with a message of class c
AllFailedWith(c) ==
  /\ call.attempt >= 1
  /\ Len(call.errs) = call.attempt
  /\ \A k \in 1..Len(call.errs) : Classify(call.errs[k]) = c

\* C5: while every attempt raises a rate-limit error the retry policy goes
\* on to a next attempt, up to the 5th; the 5th failure is raised to the
\* caller.
C5_RateLimitFiveAttempts ==
  (api_provider = "openai" /\ AllFailedWith("rate_limit")) =>
    IF call.attempt < 5
    THEN call.status = "running"
    ELSE /\ call.attempt = 5
         /\ call.status = "raised"
         /\ call.raised = call.errs[5]

\* five rate-limited attempts, the last one raised
C5_Witness ==
  /\ api_provider = "openai"
  /\ AllFailedWith("rate_limit")
  /\ call.attempt = 5
  /\ call.status = "raised"
  /\ Len(call.waits) = 4

\* C6: an authentication error on the first attempt ends the call: one
\* attempt, the error raised, no wait.
C6_AuthNotRetried ==
  (api_provider = "openai" /\ call.errs # <<>>
     /\ Classify(call.errs[1]) = "auth") =>
    /\ call.attempt = 1
    /\ call.status = "raised"
    /\ call.waits = <<>>

\* C7: a budget/billing error on the first attempt ends the call: one
\* attempt, the error raised, no wait.
C7_BudgetNotRetried ==
  (api_provider = "openai" /\ call.errs # <<>>
     /\ Classify(call.errs[1]) = "budget") =>
    /\ call.attempt = 1
    /\ call.status = "raised"
    /\ call.waits = <<>>

\* C8: for either provider, a call of which every attempt failed ends by
\* raising the error of its last attempt; it does not return a value.
C8_LastErrorRaised ==
  (call.status \in {"returned", "raised"} /\ call.attempt >= 1
     /\ Len(call.errs) = call.attempt) =>
    /\ call.status = "raised"
    /\ call.raised = call.errs[call.attempt]

\* C9: for either provider, a retryable failure (rate limit, server fault,
\* unclassified) on an attempt before the 5th is followed by another attempt.
C9_EveryCallRetried ==
  (call.attempt >= 1 /\ call.attempt < 5
     /\ Len(call.errs) = call.attempt
     /\ Classify(call.errs[call.attempt]) \in {"rate_limit", "server", "other"}) =>
    call.status = "running"

\* C10: no record of the result list holds an authentication or
\* budget/billing failure of the extraction service.
C10_CredentialFailureNotRecorded ==
  \A k \in 1..Len(results) :
    Classify(results[k].Error) \notin {"auth", "budget"}

\* the current item made the request or met the outcome e
HasEvent(e) == \E j \in 1..Len(events) : events[j] = e

\* the item whose requests `events` holds is still in its full-text part
InFullTextPart == pc \in {"pmc", "doi", "full_text"}

\* C11: when the document PMC returns carries a PMID other than the queried
\* one, its text is neither kept as full text nor handed to the extraction
\* service nor labelled as the source of the item's record; the item goes on
\* to the DOI step and ends with the abstract record or a DOI record.
C11_MismatchDiscarded ==
  HasEvent("pmid_mismatch") =>
    /\ source # "PMC"
    /\ full_text # "pmc text"
    /\ sent # "pmc text"
    /\ pc # "pmc"
    /\ pc = "doi" => full_text = NoText
    /\ HasEvent("full_text_call") => HasEvent("doi_fetch")
    /\ ~InFullTextPart =>
         /\ i >= 1
         /\ Len(results) >= i
         /\ results[i].AnalysisSource \in {"Abstract", "Full Text (DOI)"}

\* an item whose PMC document mismatched and whose DOI text was analysed
C11_Witness ==
  /\ HasEvent("pmid_mismatch")
  /\ HasEvent("full_text_call")
  /\ ~InFullTextPart
  /\ results[i].AnalysisSource = "Full Text (DOI)"

\* a step out of the PMC or the DOI step raises nothing and keeps the
\* abstract result
SourceStepKeepsAbstract ==
  pc \in {"pmc", "doi"} =>
    /\ caught' = NoMsg
    /\ analysis_status' = analysis_status
    /\ \/ /\ pc' \in {"doi", "full_text"}
          /\ result' = result
          /\ results' = results
       \/ /\ pc' \notin {"pmc", "doi", "full_text"}
          /\ result.AnalysisSource = "Abstract"
          /\ results' = Append(results, result)

\* C12: whatever the two full-text sources answer (nothing found, timeout,
\* transport error, unparsable document), the step raises nothing to the
\* item loop: no exception is caught for the item, the job status is left
\* alone, and the item either goes on or ends with exactly its abstract
\* record appended.
C12_SourceFailureKeepsAbstract == [][SourceStepKeepsAbstract]_vars

\* an item both of whose sources failed and that kept its abstract record
C12_Witness ==
  /\ HasEvent("pmc_timeout")
  /\ HasEvent("doi_error")
  /\ ~InFullTextPart
  /\ caught = NoMsg
  /\ results[i].AnalysisSource = "Abstract"
  /\ results[i].Title = "paper"

\* PMC gave text for the current item
PmcGaveText == HasEvent("pmid_match") \/ HasEvent("pmid_absent")

\* the abstract result of the item that is past the DOI step: PMID and link
\* are those of the abstract result in every record the item can end with
PastDoiStep == HasEvent("abstract_returned") /\ pc \notin {"pmc", "doi"}
AbstractOfItem == IF pc = "full_text" THEN result ELSE results[i]

\* C13: PMC is asked exactly when the abstract result holds a PMID, and
\* before the DOI source; the DOI source is asked exactly when PMC gave no
\* text (failed or not asked) and a DOI can be taken from the link; it is
\* never asked after PMC gave text.
C13_FallbackOrder ==
  /\ \A j \in 1..Len(events) : \A h \in 1..Len(events) :
       (events[j] = "pmc_fetch" /\ events[h] = "doi_fetch") => j < h
  /\ HasEvent("doi_fetch") => ~PmcGaveText
  /\ PastDoiStep =>
       /\ HasEvent("pmc_fetch") <=> AbstractOfItem.PMID \notin {"NA", "N/A"}
       /\ HasEvent("doi_fetch") <=>
            (~PmcGaveText /\ doi_of(AbstractOfItem.FullTextLink) # "")

\* an item that asked PMC in vain and then the DOI source
C13_Witness ==
  /\ PastDoiStep
  /\ HasEvent("pmc_no_link")
  /\ HasEvent("doi_fetch")
  /\ events[3] = "pmc_fetch"

\* the text holds no '{' with a '}' after it
NoBraceSpan(text) ==
  ~\E b \in 1..Len(text) : \E e \in (b + 1)..Len(text) :
      text[b] = "{" /\ text[e] = "}"

\* the dictionary with the fixed error message and the title placeholder
FixedErrorRecord == parsed_value(FixedErrorJson)

\* C14: a response without a brace-delimited span, the empty and the
\* whitespace-only response included, is answered with the fixed error
\* record.
C14_NoSpanGivesFixedError ==
  (parser.stage = "done" /\ NoBraceSpan(parser.text)) =>
    parser.result = FixedErrorRecord

\* C15: a valid JSON object parses to the same record whether it stands in a
\* fenced block (with or without the json tag) or alone, nested objects and
\* a '}' inside a value included.
C15_FenceMakesNoDifference ==
  (parser.stage = "done" /\ parser.text \in Payloads) =>
    /\ parser.result = parse_text(Fenced(parser.text))
    /\ parser.result = parse_text(FencedJson(parser.text))

\* C16: when a brace span is found and does not parse, the dictionary
\* returned holds the reason and, as raw response, the response itself when
\* it has at most 500 characters and else its first 500 characters followed
\* by "...": never more than 503 characters.
C16_ParseErrorExcerpt ==
  (/\ parser.stage = "done"
   /\ ~NoBraceSpan(parser.text)
   /\ ~json_valid(parser.cleaned)) =>
    /\ parser.result.kind = "parse_error"
    /\ parser.result.Title = "Error parsing model response"
    /\ parser.result.Error =
         <<"Could not parse response as JSON:", "JSONDecodeError">>
    /\ Len(parser.result.RawResponse) <= excerpt_limit + Len(Ellipsis)
    /\ parser.result.RawResponse =
         IF Len(parser.text) > excerpt_limit
         THEN SubSeq(parser.text, 1, excerpt_limit) \o Ellipsis
         ELSE parser.text

\* a response longer than the excerpt and its marker, cut to 503 characters
C16_Witness ==
  /\ parser.stage = "done"
  /\ parser.result.kind = "parse_error"
  /\ Len(parser.text) > excerpt_limit + Len(Ellipsis)
  /\ Len(parser.result.RawResponse) = excerpt_limit + Len(Ellipsis)

\* C17: the progress counter equals the total when the job is completed, and
\* stays below the total while the job runs with items not yet finished.
\* (That the counter does not decrease within a run is not what fails.)
C17_CompletedCounter ==
  /\ analysis_status = "completed" => progress = total_papers
  /\ (analysis_status = "running" /\ Len(results) < total_papers) =>
       progress < total_papers

\* the job status before the first request of the session sets it
NoStatus == "none"

\* a change of the status that the state machine allows
AllowedStatusChange ==
  analysis_status' # analysis_status =>
    /\ \/ analysis_status = NoStatus
       \/ <<analysis_status, analysis_status'>> \in
            {<<"pending", "running">>, <<"running", "completed">>,
             <<"running", "error">>}
    /\ ~(analysis_status \in {"completed", "error"}
           /\ analysis_status' = "running")

\* C18: the status changes only pending -> running, running -> completed and
\* running -> error (and takes its first value); in particular it never
\* goes from completed or error back to running.
C18_StatusTransitions == [][AllowedStatusChange]_vars

\* C19: once start_analysis has returned, the status it set to running is
\* completed or error, also when the client could not be created, the
\* analysis type is unknown or the search failed.
C19_RunEndsTerminal ==
  pc = "idle" => analysis_status # "running"

\* content that is empty or whitespace only
Blank(text) == text = "" \/ text = PageSeparator

\* C20: the content handed to an extraction call is never empty or
\* whitespace only.
C20_NoBlankContentSent == ~Blank(sent)

\* the record reports no error
NonError(d) == d.Error = NoMsg

\* C21: every record without an error in the result list of a job holds
\* every field of the fixed field set, also the fields the model output left
\* out.
C21_TotalMapping ==
  \A k \in 1..Len(results) :
    NonError(results[k]) => Fields \subseteq results[k].keys

\* C22: for every content and both providers, the user content submitted is
\* the content itself when it has at most 100,000 characters, and else its
\* first 100,000 characters followed by the truncation marker; it depends
\* on the content alone and is the same for both providers.
C22_Truncation ==
  request.stage = "built" =>
    /\ request.user_content =
         IF Len(request.paper_content) <= max_content_length
         THEN request.paper_content
         ELSE SubSeq(request.paper_content, 1, max_content_length)
                \o TruncationMarker
    /\ request.user_content = openai_user_content(request.paper_content)
    /\ request.user_content = claude_user_content(request.paper_content)
    /\ Len(request.user_content) <= max_content_length + Len(TruncationMarker)

\* a content longer than the cap, cut after its 100,000th character
C22_Witness ==
  /\ request.stage = "built"
  /\ api_provider = "anthropic"
  /\ Len(request.paper_content) = max_content_length + MaxLen
  /\ Len(request.user_content) = max_content_length + Len(TruncationMarker)
  /\ request.user_content[max_content_length] =
       request.paper_content[max_content_length]
  /\ request.user_content[max_content_length + 1] = "\n"

\* the file types local extraction reads, and those among them that are images
SupportedTypes == {"pdf", "png", "jpg", "jpeg"}
ImageTypes == {"png", "jpg", "jpeg"}

Unsupported(file) == Lower(file.ext) \notin SupportedTypes

\* the loop over the uploaded files has finished its i-th pass
FilesDone == analysis_type = "pdf" /\ i >= 1

\* C23: a file whose extension, lower-cased, is none of pdf, png, jpg, jpeg
\* fails with the format error before any reader (text extraction or OCR) is
\* called; in a job the file's record is an error record with that message
\* and the file's name, the job is not aborted and the loop goes on to the
\* files that remain.
C23_UnsupportedTypeFails ==
  FilesDone =>
    /\ Len(results) = i
    /\ \A k \in 1..i :
         Unsupported(pdf_files[k]) =>
           /\ results[k].Title = "Error processing file"
           /\ results[k].Error = <<"Unsupported file type">>
           /\ results[k].Filename = pdf_files[k].name
    /\ Unsupported(pdf_files[i]) =>
         /\ events = <<>>
         /\ caught = <<"Unsupported file type">>
    /\ pc = "pdf_loop" <=> i < Len(pdf_files)
    /\ analysis_status \in {"running", "completed"}

\* a completed job whose first file was refused and whose second was read
C23_Witness ==
  /\ analysis_status = "completed"
  /\ analysis_type = "pdf"
  /\ Len(analysis_results) = 2
  /\ Unsupported(pdf_files[1])
  /\ analysis_results[1].Error = <<"Unsupported file type">>
  /\ ~Unsupported(pdf_files[2])
  /\ analysis_results[2].Error = NoMsg

\* C24: an image is read by OCR whether the OCR flag is set or not; a PDF is
\* read by OCR exactly when the flag is set, and else by the extraction of
\* its embedded text page by page, which is the content handed on.
C24_OcrPaths ==
  FilesDone =>
    LET file_extension == Lower(pdf_files[i].ext) IN
    /\ file_extension \in ImageTypes =>
         /\ Len(events) = 1
         /\ events[1] \in OcrReaders
    /\ file_extension = "pdf" =>
         /\ Len(events) = 1
         /\ events[1] \in OcrReaders <=> use_ocr
         /\ ~use_ocr => events[1] = "convert_pdf_to_txt_file"
         /\ (~use_ocr /\ caught # <<"cannot read file">>) =>
              sent \in {"file text", PageSeparator}

\* an image read by OCR in a job whose OCR flag is off
C24_Witness ==
  /\ FilesDone
  /\ ~use_ocr
  /\ Lower(pdf_files[i].ext) \in ImageTypes
  /\ events = <<"image_to_string">>
  /\ results[i].Error = NoMsg
  /\ sent = "file text"

\* the system prompt holds the part
HasPart(prompt, part) == \E k \in 1..Len(prompt) : prompt[k] = part

\* the provider's own instructions
ProviderPart ==
  IF api_provider = "openai" THEN get_openai_specific_instructions
  ELSE get_claude_specific_instructions

\* C26: the system prompt of an extraction call is the base prompt followed
\* by the instructions of the job's provider, and it holds the addition for
\* full documents exactly when the content is a full document (the text of a
\* local file, or full text from PMC or the DOI source) and not an abstract.
C26_InstructionParts ==
  sent # NotSent =>
    /\ Len(system_prompt) >= 2
    /\ system_prompt[1] = get_base_analysis_prompt
    /\ system_prompt[2] = ProviderPart
    /\ HasPart(system_prompt, get_pdf_prompt_addition) <=> sent # PaperContent

Poll == analysis_status_poll \/ analysis_progress_poll \/ get_results

\* the job state of the session: status, completed, total, current label,
\* start time, result list
job_state ==
  <<analysis_status, progress, total_papers, current_paper, start_time,
    analysis_results>>

PollsOnlyRead == Poll => UNCHANGED job_state

\* C27: a poll of the status, progress or results route leaves the status,
\* the completed counter, the total, the current label, the start time and
\* the result list as they were, in every state and however often it is sent.
C27_PollsOnlyRead == [][PollsOnlyRead]_vars

\* a status poll answered while the job was running with one item counted,
\* after which the job completed
C27_Witness ==
  /\ polled.route = "analysis_status"
  /\ polled.status = "running"
  /\ polled.progress = 1
  /\ polled.count = 0
  /\ analysis_status = "completed"
  /\ Len(analysis_results) > 0
\* the latest paper of a PubMed job is finished: `events` holds what its
\* sources answered and results[i] is its record
PaperDone ==
  /\ HasEvent("abstract_call")
  /\ ~InFullTextPart
  /\ i >= 1
  /\ Len(results) >= i

\* the DOI source gave text for the current item
DoiGaveText == HasEvent("doi_pdf_ok")

\* a full-text label is given only after the source it names gave the text
FullTextLabelNamesSource ==
  PaperDone =>
    /\ results[i].AnalysisSource = "Full Text (PMC)" => PmcGaveText
    /\ results[i].AnalysisSource = "Full Text (DOI)" =>
         (~PmcGaveText /\ DoiGaveText)

\* a paper whose abstract analysis returned and for which neither source
\* gave text is recorded with the label 'Abstract'; a PubMed job that went
\* through its n papers is completed with n records and progress n/n
UnreachableFullTextBatch ==
  /\ (PaperDone /\ HasEvent("abstract_returned") /\ ~PmcGaveText
        /\ ~DoiGaveText) =>
       results[i].AnalysisSource = "Abstract"
  /\ (analysis_type = "pubmed" /\ pc = "idle" /\ i >= 1) =>
       /\ analysis_status = "completed"
       /\ Len(analysis_results) = total_papers
       /\ progress = total_papers
       /\ i = total_papers

C29_EveryCallTimesOut == pc # "blocked"

\* C30: while a job runs, the completed counter is at most the number of
\* records appended to the result list so far, so it is i only after item i
\* is finished and n only after all n items are finished.
C30_CounterFollowsRecords ==
  (analysis_status = "running" /\ pc # "idle") => progress <= Len(results)
\* the '}' that matches the '{' at position b: the first position after b up
\* to which as many braces are closed as are opened; 0 when there is none
matching_brace(text, b) ==
  LET opened(e) == Cardinality({k \in b..e : text[k] = "{"})
      closed(e) == Cardinality({k \in b..e : text[k] = "}"})
      ends == {e \in (b + 1)..Len(text) :
                 text[e] = "}" /\ opened(e) = closed(e)}
  IN IF ends = {} THEN 0 ELSE Least(ends)

\* the position of the first '{' of the text, 0 when there is none
first_brace(text) ==
  LET opens == {b \in 1..Len(text) : text[b] = "{"} IN
  IF opens = {} THEN 0 ELSE Least(opens)

\* a brace span and a blank, put before a fenced block
SpanBefore == <<"{", "a", "}", " ">>

\* C31: the strategies are applied in order.  A brace-delimited object in a
\* fenced block is the candidate even when another brace span stands before
\* the block; without a fenced block the candidate is the span from the first
\* '{' to the '}' that matches it.
C31_StrategyOrder ==
  parser.stage \in {"cleaned", "done"} =>
    /\ parser.text \in Payloads \cup Broken =>
         /\ extract_json_from_text(SpanBefore \o Fenced(parser.text)) =
              parser.text
         /\ extract_json_from_text(SpanBefore \o FencedJson(parser.text)) =
              parser.text
    /\ (/\ fenced_span(parser.text) = NoSpan
        /\ first_brace(parser.text) # 0
        /\ matching_brace(parser.text, first_brace(parser.text)) # 0) =>
         parser.cleaned =
           SubSeq(parser.text, first_brace(parser.text),
                  matching_brace(parser.text, first_brace(parser.text)))
NonEmpty(segment) == segment # <<>>

\* the path segments of the link after the last host marker
segments_after_marker(link) ==
  LET m == Greatest({k \in 1..Len(link) : link[k] = HostMarker}) IN
  SelectSeq(split(SubSeq(link, m + 1, Len(link)), Slash), NonEmpty)

\* C32: for a link that holds the host marker 'doi.org' the DOI is the last
\* two path segments after the last marker and holds neither the marker nor
\* the scheme; for a link with fewer than two segments after the marker, or
\* without the marker, no DOI is derived.
C32_DoiFromLink ==
  lookup.stage = "derived" =>
    IF Contains(lookup.link, HostMarker)
       /\ Len(segments_after_marker(lookup.link)) >= 2
    THEN LET segs == segments_after_marker(lookup.link) IN
         /\ lookup.doi = segs[Len(segs) - 1] \o <<Slash>> \o segs[Len(segs)]
         /\ ~Contains(lookup.doi, HostMarker)
         /\ ~Contains(lookup.doi, Scheme)
    ELSE lookup.doi = NoDoi
\* C33: text of PMC is accepted (kept as full text, handed to the extraction
\* service) only when the returned document held a PMID and that PMID was
\* the queried one; a document without a PMID, or one that does not parse,
\* is not accepted.
C33_AcceptedAfterCrossCheck ==
  /\ (full_text = "pmc text" \/ sent = "pmc text" \/ source = "PMC") =>
       HasEvent("pmid_match")
  /\ (HasEvent("pmid_absent") \/ HasEvent("pmc_unparsable")) =>
       /\ full_text # "pmc text"
       /\ sent # "pmc text"
       /\ source # "PMC"
HoldsRateLimitMarker(msg) == any(RateLimitMarkers, lower(msg))

\* C35: the extra delay of 2 seconds is slept on a failed attempt exactly
\* when the message of its error holds a rate-limit marker, in whatever
\* case; it is not slept for an error classified as budget/billing, server
\* fault, authentication or other.
C35_ExtraDelayOnRateLimit ==
  api_provider = "openai" =>
    /\ Len(call.extras) = Len(call.errs)
    /\ \A k \in 1..Len(call.errs) :
         /\ call.extras[k] =
              IF HoldsRateLimitMarker(call.errs[k])
              THEN extra_rate_limit_delay ELSE 0
         /\ Classify(call.errs[k]) \in {"budget", "server", "auth", "other"}
              => call.extras[k] = 0

\* a call whose first failure was a rate limit written with a capital and
\* whose second was a server fault
C35_Witness ==
  /\ api_provider = "openai"
  /\ Len(call.errs) >= 2
  /\ call.errs[1] = RateLimitMsg
  /\ call.extras[1] = extra_rate_limit_delay
  /\ call.errs[2] = ServerMsg
  /\ call.extras[2] = 0

\* the classes of error the retry policy is meant to retry
Retryable == {"rate_limit", "server", "other"}

\* every failure of the call so far was retryable
OnlyRetryableFailures ==
  \A k \in 1..Len(call.errs) : Classify(call.errs[k]) \in Retryable

\* a step of a call whose failures were all retryable: after a failure
\* before the 5th attempt the call goes on, a response at attempt k ends
\* the call after exactly k attempts with the dictionary parsed from that
\* response, and a call that returned makes no further attempt
RetryThenSuccess ==
  (api_provider = "openai" /\ OnlyRetryableFailures) =>
    /\ (call.status = "running" /\ call.attempt >= 1) =>
         /\ call.attempt < 5
         /\ Len(call.errs) = call.attempt
    /\ (call.status = "running" /\ call'.status = "returned") =>
         /\ call'.attempt = Len(call.errs) + 1
         /\ call'.attempt <= 5
         /\ call'.errs = call.errs
         /\ call'.value \in {parse_response(b) : b \in Bodies}
    /\ (call'.errs # call.errs /\ Len(call.errs) + 1 < 5
          /\ Classify(call'.errs[Len(call'.errs)]) \in Retryable) =>
         call'.status = "running"
    /\ call.status = "returned" => call' = call

\* C36: when the wrapped call fails with retryable errors on attempts
\* 1..k-1 and is answered on attempt k <= 5, exactly k attempts are made,
\* the result of attempt k is returned and no attempt follows it.
C36_SuccessEndsRetries == [][RetryThenSuccess]_vars

\* a call answered on its third attempt after a server fault and a
\* connection error
C36_Witness ==
  /\ api_provider = "openai"
  /\ call.status = "returned"
  /\ call.attempt = 3
  /\ call.errs = <<ServerMsg, OtherMsg>>
  /\ call.value.Title = "paper"
\* the values of 'Analysis Source'
ProvenanceLabels == {"Abstract", "Full Text (PMC)", "Full Text (DOI)", "Failed"}

\* the entries of a list of a local-file job name the uploads in order
NamesFiles(list) ==
  /\ Len(list) <= Len(pdf_files)
  /\ \A k \in 1..Len(list) :
       /\ "Filename" \in list[k].keys
       /\ list[k].Filename = pdf_files[k].name

\* the entries of a list of a bibliographic job carry a provenance label
Labelled(list) ==
  \A k \in 1..Len(list) :
    /\ "Analysis Source" \in list[k].keys
    /\ list[k].AnalysisSource \in ProvenanceLabels

\* C37: in a local-file job every entry of the result list, success or
\* error record, carries the declared name of the upload at the same index;
\* in a bibliographic job every entry carries a provenance label.
C37_EntriesCarryMetadata ==
  /\ analysis_type = "pdf" =>
       (NamesFiles(results) /\ NamesFiles(analysis_results))
  /\ analysis_type = "pubmed" =>
       (Labelled(results) /\ Labelled(analysis_results))

\* a stored list of MaxBatch entries of a local-file job that holds an error
\* record and a record of the extraction service
C37_Witness ==
  /\ analysis_type = "pdf"
  /\ analysis_status = "completed"
  /\ Len(analysis_results) = MaxBatch
  /\ \E k \in 1..MaxBatch : analysis_results[k].Title = "Error processing file"
  /\ \E k \in 1..MaxBatch : analysis_results[k].Title = "paper"
ClearedAndDeleted ==
  clear_results =>
    /\ paths(pdf_files) \cap disk' = {}
    /\ pdf_files' = <<>>
    /\ analysis_results' = <<>>
    /\ analysis_status' = "none"
    /\ query' = NoQuery

C39_ClearedFilesDeleted == [][ClearedAndDeleted]_vars

====
